---- MODULE Spec2Model ----
(***************************************************************************)
(* The "UIA Cat" Bevy application of src/main.rs: one Cat entity whose      *)
(* Transform is moved by move_cat and whose sprite-atlas index is stepped   *)
(* by execute_animations / trigger_animation, all three registered in the   *)
(* Update schedule.                                                         *)
(*                                                                          *)
(* Representation.  Durations are whole nanoseconds, as in                  *)
(* std::time::Duration.  The f32 translation is kept in fixed point, in     *)
(* millionths of a logical pixel, and products are truncated toward zero;   *)
(* a component of the normalised direction is kept in units of 2^-24, the   *)
(* resolution of an f32 mantissa.  TLC's integers are 32 bits wide, so the  *)
(* products are computed by MulDiv and MulQ24, which never form a * b.      *)
(***************************************************************************)
EXTENDS Integers, Sequences, FiniteSets

VARIABLES
    translation_x,      \* Transform.translation.x of the Cat, in millionths
    translation_y,      \* Transform.translation.y of the Cat, in millionths
    flip_x,             \* Sprite.flip_x
    atlas_index,        \* Sprite.texture_atlas (always Some): TextureAtlas.index
    config,             \* the Cat's AnimationConfig
    delta,              \* Time::delta() of the current frame, in nanoseconds
    pressed,            \* ButtonInput<KeyCode>: the keys held in the current frame
    space_just_pressed, \* input_just_pressed(KeyCode::Space) in the current frame
    pending,            \* the systems of Update still to run in the current frame
    ran,                \* history: the systems run so far in the current frame, in order
    prev,               \* history: the Cat's data just before the last system ran
    exact_ticks,        \* history: ticks of exactly one timer duration since a trigger from Idle
    frame,              \* history: frames begun (counted by MoveSpec)
    triggers            \* history: triggers raised (counted by LiveSpec)

vars == <<translation_x, translation_y, flip_x, atlas_index, config, delta, pressed,
          space_just_pressed, pending, ran, prev, exact_ticks, frame, triggers>>

----------------------------------------------------------------------------
(* Bounds of the model *)

\* frames a bounded specification runs
MaxFrames == 3
\* frames of LiveSpec in which Space is just pressed
MaxTriggers == 2
\* the elapsed times of a frame of MoveSpec, in nanoseconds
ShortDeltaNs == 250000000
LongDeltaNs == 2000000000

----------------------------------------------------------------------------
(* Arithmetic *)

Micro == 10^6
Q24 == 2^24

\* a * b mod c and the quotient a * b div c, for a >= 0, b >= 0, c > 0, by
\* binary long multiplication: no intermediate value exceeds 2 * c + b.
RECURSIVE MulMod(_, _, _)
MulMod(a, b, c) ==
    IF a = 0 THEN 0 ELSE (2 * MulMod(a \div 2, b, c) + (a % 2) * b) % c

RECURSIVE MulDiv(_, _, _)
MulDiv(a, b, c) ==
    IF a = 0 THEN 0
    ELSE 2 * MulDiv(a \div 2, b, c)
             + (2 * MulMod(a \div 2, b, c) + (a % 2) * b) \div c

Abs(n) == IF n < 0 THEN -n ELSE n
Sign(n) == IF n < 0 THEN -1 ELSE IF n > 0 THEN 1 ELSE 0

\* f32::clamp(self, min, max), for min <= max
Clamp(v, lo, hi) == IF v < lo THEN lo ELSE IF v > hi THEN hi ELSE v

----------------------------------------------------------------------------
(* Program constants *)

CAT_SPEED == 250
WindowWidth == 1024
WindowHeight == 1024
CatSize == 160
SetupFirst == 0
SetupLast == 59
SetupFps == 60
\* the f32 nearest to 1/sqrt(2), in units of 2^-24: a component of
\* Vec2::new(+-1., +-1.).normalize()
InvSqrt2Q24 == 11863283

Keys == {"KeyW", "KeyA", "KeyS", "KeyD"}
Systems == {"move_cat", "execute_animations", "trigger_animation"}

----------------------------------------------------------------------------
(* Timer *)

\* the exponent e with 2^23 <= 2^e / fps < 2^24: 1.0 / (fps as f32) is m / 2^e
RECURSIVE F32RecipExp(_, _)
F32RecipExp(fps, e) == IF 2^e \div fps >= 2^23 THEN e ELSE F32RecipExp(fps, e + 1)

\* Duration::from_secs_f32(1.0 / (fps as f32)) in nanoseconds: the quotient is
\* rounded to the 24-bit mantissa m, and m / 2^e seconds to the nearest nanosecond
SecsF32Nanos(fps) ==
    LET e == F32RecipExp(fps, 23)
        m == (2^e \div fps) + (IF 2 * (2^e % fps) >= fps THEN 1 ELSE 0)
        \* 10^9 / 2^e = 5^9 / 2^(e - 9)
    IN  MulDiv(m, 5^9, 2^(e - 9))
            + (IF 2 * MulMod(m, 5^9, 2^(e - 9)) >= 2^(e - 9) THEN 1 ELSE 0)

\* SecsF32Nanos, tabulated for the fps the program uses
TimerNanos == [fps \in {SetupFps} |-> SecsF32Nanos(fps)]

\* AnimationConfig::timer_from_fps: Timer::new(duration, TimerMode::Once)
timer_from_fps(fps) ==
    [duration |-> TimerNanos[fps], elapsed |-> 0, finished |-> FALSE,
     times_finished_this_tick |-> 0]

\* tick, were the timer to finish only once the duration is exceeded
tick_strict(t, d) ==
    IF t.finished THEN [t EXCEPT !.times_finished_this_tick = 0]
    ELSE IF t.elapsed + d > t.duration
         THEN [t EXCEPT !.elapsed = t.duration, !.finished = TRUE,
                        !.times_finished_this_tick = 1]
         ELSE [t EXCEPT !.elapsed = t.elapsed + d, !.times_finished_this_tick = 0]

\* Timer::tick for TimerMode::Once: a finished timer only clears
\* times_finished_this_tick; otherwise the elapsed time grows and is capped
\* at the duration when it reaches it
tick(t, d) ==
    IF t.finished THEN [t EXCEPT !.times_finished_this_tick = 0]
    ELSE IF t.elapsed + d >= t.duration
         THEN [t EXCEPT !.elapsed = t.duration, !.finished = TRUE,
                        !.times_finished_this_tick = 1]
         ELSE [t EXCEPT !.elapsed = t.elapsed + d, !.times_finished_this_tick = 0]

\* Timer::just_finished
just_finished(t) == t.times_finished_this_tick > 0

\* AnimationConfig::new
AnimationConfigNew(first, last, fps) ==
    [first_sprite_index |-> first, last_sprite_index |-> last, fps |-> fps,
     frame_timer |-> timer_from_fps(fps), is_playing |-> FALSE]

\* the duration of the Cat's frame timer: 16 666 668 ns
TimerDuration == TimerNanos[SetupFps]

----------------------------------------------------------------------------
(* move_cat *)

\* Normalize, were every direction scaled as a diagonal one is
Normalize_always_scaled(dx, dy) ==
    [x |-> dx * InvSqrt2Q24, y |-> dy * InvSqrt2Q24]

\* Vec2::normalize of a direction with components in {-1, 0, 1}, not both 0:
\* an axis direction is already of unit length, a diagonal one is scaled by
\* the f32 reciprocal of sqrt(2)
Normalize(dx, dy) ==
    IF dx * dx + dy * dy = 1 THEN [x |-> dx * Q24, y |-> dy * Q24]
    ELSE [x |-> dx * InvSqrt2Q24, y |-> dy * InvSqrt2Q24]

\* CAT_SPEED * time.delta_secs(), in millionths, for d nanoseconds
SpeedTimesSecs(d) ==
    CAT_SPEED * (d \div 1000) + (CAT_SPEED * (d % 1000)) \div 1000

\* a * b / 2^24 for 0 <= a < 2^29 and 0 <= b <= 2^24, multiplied in 12-bit
\* halves so that no partial product exceeds 2^30
MulQ24(a, b) ==
    LET ah == a \div 2^12
        al == a % 2^12
        bh == b \div 2^12
        bl == b % 2^12
    IN  ah * bh + (ah * bl + al * bh + (al * bl) \div 2^12) \div 2^12

\* component * CAT_SPEED * time.delta_secs(), in millionths
Displacement(component, d) ==
    Sign(component) * MulQ24(SpeedTimesSecs(d), Abs(component))

DirectionY(keys) ==
    (IF "KeyW" \in keys THEN 1 ELSE 0) - (IF "KeyS" \in keys THEN 1 ELSE 0)

DirectionX(keys) ==
    (IF "KeyD" \in keys THEN 1 ELSE 0) - (IF "KeyA" \in keys THEN 1 ELSE 0)

\* flip_x after the KeyA and the KeyD branch, in that order
FlipAfter(flip, keys) ==
    IF "KeyD" \in keys THEN FALSE ELSE IF "KeyA" \in keys THEN TRUE ELSE flip

LeftBound == -((WindowWidth * Micro) \div 2) + (CatSize * Micro) \div 2
RightBound == (WindowWidth * Micro) \div 2 - (CatSize * Micro) \div 2
BottomBound == -((WindowHeight * Micro) \div 2) + (CatSize * Micro) \div 2
TopBound == (WindowHeight * Micro) \div 2 - (CatSize * Micro) \div 2

\* ClampToWindow, were the position not clamped
ClampToWindow_absent(v, lo, hi) == v

\* the clamp of the new position to the window, one axis
ClampToWindow(v, lo, hi) == Clamp(v, lo, hi)

\* the body of move_cat: the Cat's translation and flip_x after it
MoveCatResult(x, y, flip, keys, d) ==
    LET dx == DirectionX(keys)
        dy == DirectionY(keys)
    IN  IF dx = 0 /\ dy = 0
        THEN [x |-> x, y |-> y, flip_x |-> FlipAfter(flip, keys)]
        ELSE LET n == Normalize(dx, dy)
             IN  [x |-> ClampToWindow(x + Displacement(n.x, d), LeftBound, RightBound),
                  y |-> ClampToWindow(y + Displacement(n.y, d), BottomBound, TopBound),
                  flip_x |-> FlipAfter(flip, keys)]

----------------------------------------------------------------------------
(* trigger_animation, execute_animations *)

\* TriggerResult, were the trigger to go back to the first frame
TriggerResult_rewinds(cfg, index) ==
    [config |-> [cfg EXCEPT !.frame_timer = timer_from_fps(cfg.fps),
                            !.is_playing = TRUE],
     atlas_index |-> cfg.first_sprite_index]

\* TriggerResult, were is_playing left as it is
TriggerResult_not_started(cfg, index) ==
    [config |-> [cfg EXCEPT !.frame_timer = timer_from_fps(cfg.fps)],
     atlas_index |-> index]

\* the body of trigger_animation: a new timer, is_playing set
TriggerResult(cfg, index) ==
    [config |-> [cfg EXCEPT !.frame_timer = timer_from_fps(cfg.fps),
                            !.is_playing = TRUE],
     atlas_index |-> index]

\* AtLastFrame, were the test one frame late
AtLastFrame_late(cfg, index) == index = cfg.last_sprite_index + 1

\* the test `atlas.index == config.last_sprite_index`
AtLastFrame(cfg, index) == index = cfg.last_sprite_index

\* StopAtFirst, were the index left on the last frame
StopAtFirst_no_rewind(cfg, index, t) ==
    [config |-> [cfg EXCEPT !.frame_timer = t, !.is_playing = FALSE],
     atlas_index |-> index]

\* StopAtFirst, were the animation to loop instead of stopping
StopAtFirst_loops(cfg, index, t) ==
    [config |-> [cfg EXCEPT !.frame_timer = timer_from_fps(cfg.fps)],
     atlas_index |-> cfg.first_sprite_index]

\* the last-frame branch: back to the first frame, and stop.  (The 1 ms
\* std::thread::sleep before it changes no data.)
StopAtFirst(cfg, index, t) ==
    [config |-> [cfg EXCEPT !.frame_timer = t, !.is_playing = FALSE],
     atlas_index |-> cfg.first_sprite_index]

\* the other branch: the next frame, and a new timer
NextFrame(cfg, index, t) ==
    [config |-> [cfg EXCEPT !.frame_timer = timer_from_fps(cfg.fps)],
     atlas_index |-> index + 1]

\* the loop body of execute_animations for the Cat, once is_playing has been tested
PlayingTick(cfg, index, d) ==
    LET t == tick(cfg.frame_timer, d)
    IN  IF just_finished(t)
        THEN IF AtLastFrame(cfg, index)
             THEN StopAtFirst(cfg, index, t)
             ELSE NextFrame(cfg, index, t)
        ELSE [config |-> [cfg EXCEPT !.frame_timer = t], atlas_index |-> index]

\* ExecuteResult, were is_playing not tested
ExecuteResult_unguarded(cfg, index, d) == PlayingTick(cfg, index, d)

\* the loop body of execute_animations for the Cat
ExecuteResult(cfg, index, d) ==
    IF ~cfg.is_playing THEN [config |-> cfg, atlas_index |-> index]
    ELSE PlayingTick(cfg, index, d)

----------------------------------------------------------------------------
(* The frame loop *)

\* Scheduled, were trigger_animation added without its run condition
Scheduled_unconditional(space) == Systems

\* the systems main adds to Update: trigger_animation::<Cat> only runs if
\* input_just_pressed(KeyCode::Space)
Scheduled(space) ==
    {"move_cat", "execute_animations"}
        \cup (IF space THEN {"trigger_animation"} ELSE {})

Snapshot ==
    [x |-> translation_x, y |-> translation_y, flip_x |-> flip_x,
     atlas_index |-> atlas_index, config |-> config]

\* setup: the Cat is spawned at Transform::IDENTITY (scaled), on the first
\* frame of its atlas, with AnimationConfig::new(0, 59, 60)
Init ==
    /\ translation_x = 0
    /\ translation_y = 0
    /\ flip_x = FALSE
    /\ config = AnimationConfigNew(SetupFirst, SetupLast, SetupFps)
    /\ atlas_index = config.first_sprite_index
    /\ delta = 0
    /\ pressed = {}
    /\ space_just_pressed = FALSE
    /\ pending = {}
    /\ ran = <<>>
    /\ prev = Snapshot
    /\ exact_ticks = -1
    /\ frame = 0
    /\ triggers = 0

\* a frame begins once the systems of the frame before have run: the engine
\* supplies the elapsed time and the input, and schedules the systems
StartFrame(keys, d, space) ==
    /\ pending = {}
    /\ pressed' = keys
    /\ delta' = d
    /\ space_just_pressed' = space
    /\ pending' = Scheduled(space)
    /\ ran' = <<>>
    /\ prev' = Snapshot
    /\ UNCHANGED <<translation_x, translation_y, flip_x, atlas_index, config, exact_ticks>>

\* a pending system is taken off the schedule and run; Update puts no order
\* on the three systems
Take(system) ==
    /\ system \in pending
    /\ pending' = pending \ {system}
    /\ ran' = Append(ran, system)
    /\ prev' = Snapshot
    /\ UNCHANGED <<delta, pressed, space_just_pressed, frame, triggers>>

move_cat ==
    /\ Take("move_cat")
    /\ LET r == MoveCatResult(translation_x, translation_y, flip_x, pressed, delta)
       IN  /\ translation_x' = r.x
           /\ translation_y' = r.y
           /\ flip_x' = r.flip_x
    /\ UNCHANGED <<atlas_index, config, exact_ticks>>

execute_animations ==
    /\ Take("execute_animations")
    /\ LET r == ExecuteResult(config, atlas_index, delta)
       IN  /\ config' = r.config
           /\ atlas_index' = r.atlas_index
    /\ exact_ticks' =
           IF exact_ticks >= 0 /\ exact_ticks <= config.last_sprite_index - config.first_sprite_index
                 /\ delta = config.frame_timer.duration
           THEN exact_ticks + 1
           ELSE -1
    /\ UNCHANGED <<translation_x, translation_y, flip_x>>

trigger_animation ==
    /\ Take("trigger_animation")
    /\ LET r == TriggerResult(config, atlas_index)
       IN  /\ config' = r.config
           /\ atlas_index' = r.atlas_index
    /\ exact_ticks' = IF config.is_playing THEN -1 ELSE 0
    /\ UNCHANGED <<translation_x, translation_y, flip_x>>

\* elapsed times of a frame: none, half a timer duration, one, two
AnimDeltas == {0, TimerDuration \div 2, TimerDuration, 2 * TimerDuration}
\* elapsed times of a frame of MoveSpec: none, a quarter of a second, and two
\* seconds, which carries the Cat across more than half the window in one frame
MoveDeltas == {0, ShortDeltaNs, LongDeltaNs}

\* Spec: any number of frames, Space just pressed or not, no movement key held
BeginAnimFrame ==
    /\ UNCHANGED <<frame, triggers>>
    /\ \E d \in AnimDeltas, space \in BOOLEAN : StartFrame({}, d, space)

Next == BeginAnimFrame \/ move_cat \/ execute_animations \/ trigger_animation
Spec == Init /\ [][Next]_vars

\* MoveSpec: MaxFrames frames, any movement keys held, Space never pressed
BeginMoveFrame ==
    /\ frame < MaxFrames
    /\ frame' = frame + 1
    /\ UNCHANGED triggers
    /\ \E keys \in SUBSET Keys, d \in MoveDeltas : StartFrame(keys, d, FALSE)

MoveNext == BeginMoveFrame \/ move_cat \/ execute_animations
MoveSpec == Init /\ [][MoveNext]_vars

\* LiveSpec: as Spec, with time passing in every frame and Space just pressed
\* in at most MaxTriggers frames
BeginLiveFrame ==
    /\ UNCHANGED frame
    /\ \E d \in AnimDeltas \ {0}, space \in BOOLEAN :
           /\ space => triggers < MaxTriggers
           /\ triggers' = IF space THEN triggers + 1 ELSE triggers
           /\ StartFrame({}, d, space)

LiveNext == BeginLiveFrame \/ move_cat \/ execute_animations \/ trigger_animation
\* the engine's runner runs Update frame after frame
LiveSpec == Init /\ [][LiveNext]_vars /\ WF_vars(LiveNext)

----------------------------------------------------------------------------
(* Properties *)

\* the system that ran last in the current frame
LastRan == IF ran = <<>> THEN "none" ELSE ran[Len(ran)]
Range(q) == {q[i] : i \in 1..Len(q)}

First == config.first_sprite_index
Last == config.last_sprite_index

\* CAT_SPEED * dt for the elapsed time of the current frame, in millionths
Step == CAT_SPEED * (delta \div 1000) + (CAT_SPEED * (delta % 1000)) \div 1000
\* exactly one axis of the direction is non-zero
SingleAxis == (DirectionX(pressed) = 0) # (DirectionY(pressed) = 0)
\* 1024 / 2 - 80 = 432, in millionths
Limit == 432 * Micro

\* C1: in every reachable state the atlas index lies in
\* [first_sprite_index, last_sprite_index], which setup makes 0..59.
C1_IndexInRange ==
    /\ First = 0
    /\ Last = 59
    /\ First <= atlas_index
    /\ atlas_index <= Last

\* the last frame is reached by an advance of execute_animations
C1_Witness ==
    /\ LastRan = "execute_animations"
    /\ prev.atlas_index = Last - 1
    /\ atlas_index = Last

\* C2: after a trigger from Idle and k ticks of exactly one timer duration
\* each, with no other trigger, the index is first + k and the animation is
\* playing, for every k up to 59; after the 60th such tick the index is back
\* on the first frame and the animation has stopped.
C2_SixtyExactTicks ==
    /\ (exact_ticks >= 0 /\ exact_ticks <= Last - First)
           => (atlas_index = First + exact_ticks /\ config.is_playing)
    /\ exact_ticks = Last - First + 1
           => (atlas_index = First /\ ~config.is_playing)

\* the 60th tick has happened
C2_Witness == exact_ticks = 60 /\ LastRan = "execute_animations"

\* C3: with the 1024 x 1024 window, both coordinates of the Cat stay within
\* [-432, 432].
C3_WithinWindow ==
    /\ -Limit <= translation_x
    /\ translation_x <= Limit
    /\ -Limit <= translation_y
    /\ translation_y <= Limit

\* move_cat has stopped the Cat at the right edge
C3_Witness ==
    /\ LastRan = "move_cat"
    /\ pressed = {"KeyD"}
    /\ prev.x + Step > Limit
    /\ translation_x = Limit

\* C4: a trigger while the animation is playing leaves a new timer of 1/fps
\* seconds (to f32 precision) with nothing elapsed, is_playing set and the
\* atlas index as it was; and a tick of execute_animations leaves the index,
\* advances it by one, or takes it from the last frame to the first.
C4_RetriggerKeepsFrame ==
    /\ (LastRan = "trigger_animation" /\ prev.config.is_playing)
           => /\ config.frame_timer.elapsed = 0
              /\ ~config.frame_timer.finished
              /\ config.frame_timer.times_finished_this_tick = 0
              /\ Abs(config.frame_timer.duration * config.fps - 10^9) <= 10^9 \div 2^23
              /\ config.is_playing
              /\ atlas_index = prev.atlas_index
    /\ LastRan = "execute_animations"
           => \/ atlas_index = prev.atlas_index
              \/ atlas_index = prev.atlas_index + 1
              \/ (prev.atlas_index = Last /\ atlas_index = First)

\* a trigger in the middle of a frame's countdown, past the first frame
C4_Witness ==
    /\ LastRan = "trigger_animation"
    /\ prev.config.is_playing
    /\ prev.config.frame_timer.elapsed > 0
    /\ prev.atlas_index > First

\* C5 as stated: the systems of a frame run in the order move_cat,
\* execute_animations, trigger_animation.
C5_FixedOrder ==
    \A i \in 1..Len(ran) :
        ran[i] = <<"move_cat", "execute_animations", "trigger_animation">>[i]

\* C5, amended: in a frame no system runs twice, move_cat and
\* execute_animations are each run or still to run, and trigger_animation is
\* so exactly when Space was just pressed.
C5_OncePerFrame ==
    /\ Cardinality(Range(ran)) = Len(ran)
    /\ Range(ran) \cap pending = {}
    /\ \/ Range(ran) \cup pending = {}
       \/ Range(ran) \cup pending =
              {"move_cat", "execute_animations"}
                  \cup (IF space_just_pressed THEN {"trigger_animation"} ELSE {})

\* a frame in which the trigger ran before the animation tick
C5_Witness ==
    \E i, j \in 1..Len(ran) :
        i < j /\ ran[i] = "trigger_animation" /\ ran[j] = "execute_animations"

\* C6 as stated: with exactly one axis held, move_cat moves the Cat by
\* CAT_SPEED * dt along that axis and by nothing along the other.
C6_ExactDisplacement ==
    (LastRan = "move_cat" /\ SingleAxis)
        => /\ translation_x = prev.x + DirectionX(pressed) * Step
           /\ translation_y = prev.y + DirectionY(pressed) * Step

\* C6, amended: the Cat moves by CAT_SPEED * dt along that axis, stopping at
\* -432 or 432, and by nothing along the other.
C6_ClampedDisplacement ==
    (LastRan = "move_cat" /\ SingleAxis)
        => /\ translation_x = Clamp(prev.x + DirectionX(pressed) * Step, -Limit, Limit)
           /\ translation_y = Clamp(prev.y + DirectionY(pressed) * Step, -Limit, Limit)

\* KeyW alone for a quarter of a second, away from the edge
C6_Witness ==
    /\ LastRan = "move_cat"
    /\ pressed = {"KeyW"}
    /\ delta = ShortDeltaNs
    /\ translation_y = prev.y + CAT_SPEED * (ShortDeltaNs \div 1000)
    /\ translation_x = prev.x

\* C7 as stated: right after a trigger the index is the first frame and
\* is_playing is set.
C7_TriggerRewinds ==
    LastRan = "trigger_animation"
        => (atlas_index = First /\ config.is_playing)

\* C7, amended: right after a trigger is_playing is set and the index is what
\* it was, which is the first frame when the animation was idle.
C7_TriggerStarts ==
    LastRan = "trigger_animation"
        => /\ config.is_playing
           /\ atlas_index = prev.atlas_index
           /\ ~prev.config.is_playing => atlas_index = First

\* a trigger from Idle
C7_Witness ==
    /\ LastRan = "trigger_animation"
    /\ ~prev.config.is_playing
    /\ config.is_playing

\* C8: a tick of execute_animations while is_playing is false changes neither
\* the index nor the AnimationConfig, and the index changes only from a state
\* in which is_playing is true.
C8_IdleTickNoOp ==
    /\ (LastRan = "execute_animations" /\ ~prev.config.is_playing)
           => (atlas_index = prev.atlas_index /\ config = prev.config)
    /\ atlas_index # prev.atlas_index => prev.config.is_playing

\* a long tick while idle after a finished animation
C8_Witness ==
    /\ LastRan = "execute_animations"
    /\ ~prev.config.is_playing
    /\ prev.config.frame_timer.finished
    /\ delta = 2 * TimerDuration

\* C9: with time passing in every frame and no further trigger, a playing
\* animation eventually is idle on the first frame; and the index only moves
\* while playing, by one frame, or from the last frame to the first as the
\* animation stops.
C9_ReachesIdle ==
    /\ config.is_playing ~> (~config.is_playing /\ atlas_index = First)
    /\ [][atlas_index' # atlas_index
              => /\ config.is_playing
                 /\ \/ atlas_index' = atlas_index + 1
                    \/ (atlas_index = Last /\ atlas_index' = First
                            /\ ~config'.is_playing)]_vars

\* the animation has stopped after the last trigger
C9_Witness ==
    /\ triggers = MaxTriggers
    /\ LastRan = "execute_animations"
    /\ prev.config.is_playing
    /\ ~config.is_playing
    /\ atlas_index = First

\* C10: whenever is_playing is false the index is the first frame.
C10_IdleOnFirst == ~config.is_playing => atlas_index = First

\* the animation has just stopped on its last frame
C10_Witness ==
    /\ LastRan = "execute_animations"
    /\ prev.config.is_playing
    /\ prev.atlas_index = Last
    /\ ~config.is_playing

====
